---- MODULE Spec2Model ----
(***************************************************************************)
(* pynetworks: nodes with mirrored edge lists (networks.py), the three     *)
(* memoized path-finding functions shortest_path,                          *)
(* shortest_path_through_network and path_exists and the Path class        *)
(* (pathfinding.py), and the DOT rendering (dot.py).                       *)
(*                                                                         *)
(* A node is an identity 1..NumNodes.  node.edges is the sequence          *)
(* edges[node] of Edge records.  The memo dictionary of each decorated     *)
(* function is a function from cache keys to results.                      *)
(***************************************************************************)
EXTENDS Integers, Sequences, FiniteSets, TLC

\* ------------------------------------------------------------- bounds
MaxPathLen == 2
TraceConnects == 3
TraceCalls == 1
DepthConnects == 4
KeyConnects == 2
MaxListed == 2
DotNodes == 4
MaxIsolated == 2
MaxNameLen == 3
WireConnects == 3
NumNodes == 3
MaxWeight == 2
MaxConnects == 2
MaxCalls == 2
WeightedConnects == 3
LoopConnects == 4
DeepNodes == 4
DeepConnects == 4
LightWeight == 1
MutateConnects == 2
NetworkConnects == 3
BypassConnects == 3

\* Python's None where a number is expected (Edge.weight, _tail_weight,
\* _best_path_weight); every arithmetic use tests IsNum first.
None == -1

Nodes == 1..NumNodes
Weights == 0..MaxWeight
OptWeights == Weights \cup {None}
LightWeights == 0..LightWeight

IsNum(w) == w # None

\* ------------------------------------------------------------- values
\* Edge(node1, node2, weight)
Edge(node1, node2, weight) == [node1 |-> node1, node2 |-> node2, weight |-> weight]

\* str(n) of a natural number: its decimal digits, most significant first.
Digit(d) == CASE d = 0 -> "0" [] d = 1 -> "1" [] d = 2 -> "2" [] d = 3 -> "3"
              [] d = 4 -> "4" [] d = 5 -> "5" [] d = 6 -> "6" [] d = 7 -> "7"
              [] d = 8 -> "8" [] d = 9 -> "9"

RECURSIVE str(_)
str(n) == IF n < 10 THEN <<Digit(n)>> ELSE Append(str(n \div 10), Digit(n % 10))

\* A str value (a sequence of characters) held by the caller.
StrVal(s) == [kind |-> "str", path |-> s]

\* The characters escape_dot_id's pattern [\\"] matches.
Special == {"\\", "\""}

\* An escape_dot_id whose pattern matches the double quote only.
RECURSIVE re_sub_quotes_only(_)
re_sub_quotes_only(string) ==
    IF string = <<>> THEN <<>>
    ELSE (IF Head(string) = "\"" THEN <<"\\", Head(string)>> ELSE <<Head(string)>>)
         \o re_sub_quotes_only(Tail(string))

\* re.sub(r'([\\"])', r'\\\1', string): each match is replaced by a backslash
\* followed by the matched character, everything else is copied.
RECURSIVE re_sub(_)
re_sub(string) ==
    IF string = <<>> THEN <<>>
    ELSE (IF Head(string) \in Special THEN <<"\\", Head(string)>> ELSE <<Head(string)>>)
         \o re_sub(Tail(string))

\* escape_dot_id(string)
escape_dot_id(string) == <<"\"">> \o re_sub(string) \o <<"\"">>

\* What a search call hands back: a Path (a sequence of Edge), Python's None,
\* or a bool (path_exists).
PathVal(p) == [kind |-> "Path", path |-> p]
NoneVal == [kind |-> "None", path |-> <<>>]
BoolVal(b) == [kind |-> IF b THEN "True" ELSE "False", path |-> <<>>]

\* A plain list of Edge objects (Path is a subclass of list).
ListVal(s) == [kind |-> "list", path |-> s]

\* sep.join(list) for a list of strings.
RECURSIVE join(_, _)
join(sep, list) ==
    IF list = <<>> THEN <<>>
    ELSE IF Len(list) = 1 THEN list[1]
    ELSE list[1] \o sep \o join(sep, Tail(list))

\* Python truth of an Edge.weight: None and 0 are false.
Truthy(w) == IsNum(w) /\ w # 0

\* An Edge.dot that never writes a label.
EdgeDotUnlabeled(nm, e) ==
    escape_dot_id(nm[e.node1]) \o <<" ", "-", "-", " ">> \o escape_dot_id(nm[e.node2])

\* Edge.dot(self), nm giving the nodes' names.
EdgeDot(nm, e) ==
    LET unlabeled == escape_dot_id(nm[e.node1]) \o <<" ", "-", "-", " ">>
                     \o escape_dot_id(nm[e.node2])
    IN IF Truthy(e.weight)
       THEN unlabeled \o <<" ", "[", "l", "a", "b", "e", "l", "=">> \o str(e.weight) \o <<"]">>
       ELSE unlabeled

\* The parameters of dotgraph(isolated_nodes=None, connections=None, name='').
DotParams == {"isolated_nodes", "connections", "name"}

\* The argument bound to parameter k by the call's keywords, or its default.
Bound(kwargs, k, default) == IF k \in DOMAIN kwargs THEN kwargs[k] ELSE default

\* A dotgraph that leaves out the separator between the nodes and the edges.
dotgraph_no_middle(nm, kwargs) ==
    IF ~(DOMAIN kwargs \subseteq DotParams) THEN [out |-> "TypeError", val |-> NoneVal]
    ELSE
    LET given_nodes == Bound(kwargs, "isolated_nodes", NoneVal)
        given_edges == Bound(kwargs, "connections", NoneVal)
        gname == Bound(kwargs, "name", StrVal(<<>>)).path
        isolated_nodes == IF given_nodes.kind = "None" THEN <<>> ELSE given_nodes.path
        connections == IF given_edges.kind = "None" THEN <<>> ELSE given_edges.path
        nodes == join(<<"\n", "\t">>,
                      [i \in 1..Len(isolated_nodes) |-> escape_dot_id(nm[isolated_nodes[i]])])
        es == join(<<"\n", "\t">>,
                   [i \in 1..Len(connections) |-> EdgeDot(nm, connections[i])])
        title == IF gname # <<>> THEN escape_dot_id(gname) \o <<" ">> ELSE <<>>
    IN [out |-> "return",
        val |-> StrVal(<<"g", "r", "a", "p", "h", " ">> \o title \o <<"{", "\n", "\t">>
                       \o nodes \o es \o <<"\n", "}">>)]

\* dotgraph called with keyword arguments kwargs: a keyword that is no
\* parameter is a TypeError; None lists become []; the nodes and the edges are
\* joined by newline-tab, with a newline-tab between the two blocks when both
\* are non-empty; the name is rendered when it is non-empty.
dotgraph(nm, kwargs) ==
    IF ~(DOMAIN kwargs \subseteq DotParams) THEN [out |-> "TypeError", val |-> NoneVal]
    ELSE
    LET given_nodes == Bound(kwargs, "isolated_nodes", NoneVal)
        given_edges == Bound(kwargs, "connections", NoneVal)
        gname == Bound(kwargs, "name", StrVal(<<>>)).path
        isolated_nodes == IF given_nodes.kind = "None" THEN <<>> ELSE given_nodes.path
        connections == IF given_edges.kind = "None" THEN <<>> ELSE given_edges.path
        nodes == join(<<"\n", "\t">>,
                      [i \in 1..Len(isolated_nodes) |-> escape_dot_id(nm[isolated_nodes[i]])])
        middle == IF isolated_nodes # <<>> /\ connections # <<>> THEN <<"\n", "\t">> ELSE <<>>
        es == join(<<"\n", "\t">>,
                   [i \in 1..Len(connections) |-> EdgeDot(nm, connections[i])])
        title == IF gname # <<>> THEN escape_dot_id(gname) \o <<" ">> ELSE <<>>
    IN [out |-> "return",
        val |-> StrVal(<<"g", "r", "a", "p", "h", " ">> \o title \o <<"{", "\n", "\t">>
                       \o nodes \o middle \o es \o <<"\n", "}">>)]

\* Path.weight: sum(edge.weight for edge in self).  The sum starts at 0 and
\* adding None raises TypeError: the value is None then (see WeightRaises).
RECURSIVE SumWeights(_)
SumWeights(p) ==
    IF p = <<>> THEN 0 ELSE p[1].weight + SumWeights(Tail(p))

WeightRaises(p) == \E i \in 1..Len(p) : ~IsNum(p[i].weight)

weight(p) == SumWeights(p)

\* Path.__add__ with its operands swapped.
PathAddSwapped(p, q) == q \o p

\* Path.__add__
PathAdd(p, q) == p \o q

\* What a method call on a Path yields: how it ended (out), the value returned
\* (val) and the receiver's contents after the call (self).
Yield(out, val, self) == [out |-> out, val |-> val, self |-> self]

\* An addition that extends the receiver in place and returns it.
PathPlusInPlace(self, other) ==
    IF other.kind \in {"Path", "list"}
    THEN Yield("return", PathVal(PathAdd(self.path, other.path)),
               PathVal(PathAdd(self.path, other.path)))
    ELSE Yield("TypeError", NoneVal, self)

\* self + other with self a Path: Path(super().__add__(other)); list.__add__
\* concatenates with a list into a new list and raises TypeError otherwise.
PathPlus(self, other) ==
    IF other.kind \in {"Path", "list"}
    THEN Yield("return", PathVal(PathAdd(self.path, other.path)), self)
    ELSE Yield("TypeError", NoneVal, self)

\* list.__gt__(self, other) between two lists: the first index at which the
\* items differ (Edge.__eq__) decides, by item > item, which Edge does not
\* define (TypeError); with no such index the longer list is the greater.
ListGt(self, other) ==
    LET n == IF Len(self) < Len(other) THEN Len(self) ELSE Len(other)
        D == {i \in 1..n : self[i] # other[i]}
    IN IF D # {} THEN Yield("TypeError", NoneVal, ListVal(self))
       ELSE Yield("return", BoolVal(Len(self) > Len(other)), ListVal(self))

\* self < other with self a Path.  Path.__lt__ compares the weights when other
\* is a Path (the sum raises TypeError on a None weight) and returns
\* NotImplemented otherwise; the interpreter then asks the reflected
\* other.__gt__(self): list.__gt__ accepts the Path, being a list, and None
\* has none (TypeError).
PathLess(self, other) ==
    IF other.kind = "Path"
    THEN IF WeightRaises(self.path) \/ WeightRaises(other.path)
         THEN Yield("TypeError", NoneVal, self)
         ELSE Yield("return", BoolVal(weight(self.path) < weight(other.path)), self)
    ELSE IF other.kind = "list"
    THEN [ListGt(other.path, self.path) EXCEPT !.self = self]
    ELSE Yield("TypeError", NoneVal, self)

\* memo[cachekey] = path
Put(memo, key, val) ==
    [k \in (DOMAIN memo) \cup {key} |-> IF k = key THEN val ELSE memo[k]]

EmptyMemo == [k \in {} |-> NoneVal]

\* ------------------------------------------------------------- search
\* What one (possibly recursive) call of a decorated function yields:
\*   out     "return", or the exception that leaves the call
\*           ("inconclusive" = _IncompleteSearchFoundNone, "TypeError")
\*   val     the returned value (NoneVal when it raises)
\*   memo    the function's cache after the call
\* and, as instrumentation of the run (no effect on out, val, memo):
\*   calls   how many times the wrapped function body was entered
\*   skipped whether pruning skipped an edge in this call or below it
\*   inc     the wrapper calls that caught the inconclusive signal
\*   wrote   the cache writes made, each with what its call had skipped
\*   log     what the frames of _continue_recursively did (see EmptyLog)
\*   depth   how deep the calls of the decorated function nested, this call
\*           counted
Res(out, val, memo, calls, skipped, inc, wrote, log, depth) ==
    [out |-> out, val |-> val, memo |-> memo, calls |-> calls,
     skipped |-> skipped, inc |-> inc, wrote |-> wrote, log |-> log,
     depth |-> depth]

\* The log of the frames: the edges a frame came to with node2 not visited
\* (tried), the paths a frame bound to best_path (adopted), and how the frames
\* ended (ended).
EmptyLog == [tried |-> {}, adopted |-> {}, ended |-> {}]

JoinLogs(a, b) ==
    [tried |-> a.tried \cup b.tried, adopted |-> a.adopted \cup b.adopted,
     ended |-> a.ended \cup b.ended]

Max2(a, b) == IF a >= b THEN a ELSE b

Hit(memo, key) == Res("return", memo[key], memo, 0, FALSE, {}, {}, EmptyLog, 1)

\* cachekey = tuple(frozenset(param) if isinstance(param, set) else param ...):
\* a set is its own order-independent form here.
CacheKey(param1, param2) == <<param1, param2>>

\* The frame with a missing tail weight and a missing best weight read as 0.
FrameFromZero(tail_weight, best_path_weight, memo) ==
    [have_best |-> FALSE, best_path |-> <<>>,
     best_path_weight |-> IF IsNum(best_path_weight) THEN best_path_weight ELSE 0,
     tail_weight |-> IF IsNum(tail_weight) THEN tail_weight ELSE 0,
     edges_were_skipped |-> FALSE, memo |-> memo,
     calls |-> 0, skipped |-> FALSE, inc |-> {}, wrote |-> {},
     log |-> EmptyLog, depth |-> 0]

\* The local variables of _continue_recursively while it walks start.edges.
Frame(tail_weight, best_path_weight, memo) ==
    [have_best |-> FALSE, best_path |-> <<>>,
     best_path_weight |-> best_path_weight, tail_weight |-> tail_weight,
     edges_were_skipped |-> FALSE, memo |-> memo,
     calls |-> 0, skipped |-> FALSE, inc |-> {}, wrote |-> {},
     log |-> EmptyLog, depth |-> 0]

Raise(exc, f) ==
    Res(exc, NoneVal, f.memo, f.calls, f.skipped, f.inc, f.wrote, f.log, f.depth)

\* The log with the end of frame f noted: whether it held a path, whether it
\* had skipped an edge, and how it ended.
Ended(f, out, kind) ==
    [f.log EXCEPT !.ended = @ \cup {[found |-> f.have_best,
                                     skipped |-> f.edges_were_skipped,
                                     out |-> out, kind |-> kind]}]

\* The log with an edge noted that frame f came to: its weight, the frame's
\* tail_weight and best_path_weight, and whether the edge was skipped.
Tried(f, edge, skipped) ==
    [f.log EXCEPT !.tried = @ \cup {[weight |-> edge.weight, tail |-> f.tail_weight,
                                     best |-> f.best_path_weight,
                                     skipped |-> skipped]}]

\* The log with a binding of best_path noted: whether the frame held a path,
\* its best_path_weight before, the weight of the new path, and whether the
\* path down the edge was read from the cache.
Adopted(f, new, hit) ==
    [f.log EXCEPT !.adopted = @ \cup {[had |-> f.have_best, best |-> f.best_path_weight,
                                       new |-> new, hit |-> hit]}]

\* The pruning test with > in place of >=: an edge that can only equal the best
\* weight is still explored.
PruneStrict(new_tail_weight, best_path_weight) == new_tail_weight > best_path_weight

\* "move on if weight of a path down this edge will exceed best"
Prune(new_tail_weight, best_path_weight) == new_tail_weight >= best_path_weight

\* Finish with best_path bound to Path() before the loop: a frame that found
\* nothing and skipped nothing returns the empty Path.
FinishBestPreset(f) ==
    IF f.have_best \/ ~f.edges_were_skipped
    THEN Res("return", PathVal(f.best_path), f.memo, f.calls, f.skipped, f.inc, f.wrote,
             Ended(f, "return", "Path"), f.depth)
    ELSE Raise("inconclusive", [f EXCEPT !.log = Ended(f, "inconclusive", "None")])

\* The end of _continue_recursively: return best_path, or NameError:
\* raise the inconclusive signal when edges were skipped, else return None.
Finish(f) ==
    IF f.have_best
    THEN Res("return", PathVal(f.best_path), f.memo, f.calls, f.skipped, f.inc, f.wrote,
             Ended(f, "return", "Path"), f.depth)
    ELSE IF f.edges_were_skipped
    THEN Raise("inconclusive", [f EXCEPT !.log = Ended(f, "inconclusive", "None")])
    ELSE Res("return", NoneVal, f.memo, f.calls, f.skipped, f.inc, f.wrote,
             Ended(f, "return", "None"), f.depth)

\* The frame after the call down an edge came back with r.
Merge(f, r) ==
    [f EXCEPT !.memo = r.memo, !.calls = f.calls + r.calls,
              !.skipped = f.skipped \/ r.skipped,
              !.inc = f.inc \cup r.inc, !.wrote = f.wrote \cup r.wrote,
              !.log = JoinLogs(f.log, r.log), !.depth = Max2(f.depth, r.depth)]

RECURSIVE memoized(_, _, _, _, _, _, _, _, _)
RECURSIVE _continue_recursively(_, _, _, _, _, _, _, _)
RECURSIVE path_exists_loop(_, _, _, _, _, _, _)

\* for edge in start.edges: ... (lines 146-172), from the i-th edge on, then
\* the end of the function.
_continue_recursively(func, g, start, param2, save_to_cache, visited, i, f) ==
    IF i > Len(g[start]) THEN Finish(f)
    ELSE
    LET edge == g[start][i]
        adds == IsNum(edge.weight) /\ IsNum(f.tail_weight)
        new_tail_weight == IF adds THEN edge.weight + f.tail_weight ELSE None
    IN
    IF edge.node2 \in visited
    THEN _continue_recursively(func, g, start, param2, save_to_cache, visited, i + 1, f)
    ELSE IF adds /\ ~IsNum(f.best_path_weight)
    THEN Raise("TypeError", f)
    ELSE IF adds /\ Prune(new_tail_weight, f.best_path_weight)
    THEN _continue_recursively(func, g, start, param2, save_to_cache, visited, i + 1,
             [f EXCEPT !.edges_were_skipped = TRUE, !.skipped = TRUE,
                       !.log = Tried(f, edge, TRUE)])
    ELSE
    LET r == memoized(func, g, edge.node2, param2, save_to_cache,
                      visited \cup {start}, new_tail_weight, f.best_path_weight, f.memo)
        f1 == Merge([f EXCEPT !.log = Tried(f, edge, FALSE)], r)
        best_path == PathAdd(<<edge>>, r.val.path)
    IN
    IF r.out # "return" THEN Raise(r.out, f1)
    ELSE IF r.val.kind # "Path"
    THEN _continue_recursively(func, g, start, param2, save_to_cache, visited, i + 1, f1)
    ELSE IF WeightRaises(best_path) THEN Raise("TypeError", f1)
    ELSE _continue_recursively(func, g, start, param2, save_to_cache, visited, i + 1,
             [f1 EXCEPT !.have_best = TRUE, !.best_path = best_path,
                        !.best_path_weight = weight(best_path),
                        !.tail_weight = 0,
                        !.log = Adopted(f1, weight(best_path), r.calls = 0)])

\* shortest_path without its "if start is end" test.
shortest_path_no_base(g, start, end, save_to_cache, visited, tail_weight, best_path_weight, memo) ==
    _continue_recursively("shortest_path", g, start, end, save_to_cache, visited, 1,
                          Frame(tail_weight, best_path_weight, memo))

\* shortest_path(start, end, *, save_to_cache, _visited, _tail_weight,
\* _best_path_weight), the undecorated body.
shortest_path(g, start, end, save_to_cache, visited, tail_weight, best_path_weight, memo) ==
    IF start = end
    THEN Res("return", PathVal(<<>>), memo, 0, FALSE, {}, {}, EmptyLog, 0)
    ELSE _continue_recursively("shortest_path", g, start, end, save_to_cache, visited, 1,
                               Frame(tail_weight, best_path_weight, memo))

\* shortest_path_through_network giving up one node early: the empty Path as
\* soon as at most one node of the network is left.
shortest_path_through_network_early(g, start, network, save_to_cache, visited, tail_weight, best_path_weight, memo) ==
    LET reduced_set == network \ {start} IN
    IF Cardinality(reduced_set) <= 1
    THEN Res("return", PathVal(<<>>), memo, 0, FALSE, {}, {}, EmptyLog, 0)
    ELSE _continue_recursively("shortest_path_through_network", g, start, reduced_set,
                               save_to_cache, visited, 1,
                               Frame(tail_weight, best_path_weight, memo))

\* shortest_path_through_network(start, network, ...), the undecorated body;
\* network is a set of nodes.
shortest_path_through_network(g, start, network, save_to_cache, visited, tail_weight, best_path_weight, memo) ==
    LET reduced_set == network \ {start} IN
    IF reduced_set = {}
    THEN Res("return", PathVal(<<>>), memo, 0, FALSE, {}, {}, EmptyLog, 0)
    ELSE _continue_recursively("shortest_path_through_network", g, start, reduced_set,
                               save_to_cache, visited, 1,
                               Frame(tail_weight, best_path_weight, memo))

\* for edge in start.edges: if edge.node2 not in _visited: if path_exists(...):
\* return True; then return False (lines 274-279).  f carries the cache and
\* the instrumentation.
path_exists_loop(g, start, end, save_to_cache, visited, i, f) ==
    IF i > Len(g[start])
    THEN Res("return", BoolVal(FALSE), f.memo, f.calls, FALSE, {}, f.wrote, f.log, f.depth)
    ELSE
    LET edge == g[start][i] IN
    IF edge.node2 \in visited
    THEN path_exists_loop(g, start, end, save_to_cache, visited, i + 1, f)
    ELSE
    LET r == memoized("path_exists", g, edge.node2, end, save_to_cache,
                      visited \cup {start}, None, None, f.memo)
        f1 == Merge(f, r)
    IN
    IF r.val.kind = "True"
    THEN Res("return", BoolVal(TRUE), f1.memo, f1.calls, FALSE, {}, f1.wrote, f1.log, f1.depth)
    ELSE path_exists_loop(g, start, end, save_to_cache, visited, i + 1, f1)

\* path_exists(start, end, *, save_to_cache, _visited), the undecorated body.
path_exists(g, start, end, save_to_cache, visited, memo) ==
    IF start = end
    THEN Res("return", BoolVal(TRUE), memo, 0, FALSE, {}, {}, EmptyLog, 0)
    ELSE path_exists_loop(g, start, end, save_to_cache, visited, 1,
                          Frame(None, None, memo))

\* shortest_path_func(*args, save_to_cache=save_to_cache, **kwargs): one entry
\* into the wrapped function.
Invoke(func, g, param1, param2, save_to_cache, visited, tail_weight, best_path_weight, memo) ==
    LET r == CASE func = "shortest_path" ->
                    shortest_path(g, param1, param2, save_to_cache, visited,
                                  tail_weight, best_path_weight, memo)
               [] func = "shortest_path_through_network" ->
                    shortest_path_through_network(g, param1, param2, save_to_cache,
                                  visited, tail_weight, best_path_weight, memo)
               [] func = "path_exists" ->
                    path_exists(g, param1, param2, save_to_cache, visited, memo)
    IN [r EXCEPT !.calls = r.calls + 1, !.depth = r.depth + 1]

\* The wrapper without its except clause: the signal goes on to the caller.
Uncaught(r, key, memo) == r

\* except _IncompleteSearchFoundNone: return None  # but don't cache
Caught(r, key, memo) ==
    [r EXCEPT !.out = "return", !.val = NoneVal,
              !.inc = r.inc \cup {[key |-> key, before |-> key \in DOMAIN memo,
                                   after |-> key \in DOMAIN r.memo]}]

\* else: memo[cachekey] = path; return path
Store(r, key) ==
    [r EXCEPT !.memo = Put(r.memo, key, r.val),
              !.wrote = r.wrote \cup {[key |-> key, kind |-> r.val.kind,
                                       skipped |-> r.skipped]}]

\* The wrapper without "return memo[cachekey]": every call searches again.
memoized_no_lookup(func, g, param1, param2, save_to_cache, visited, tail_weight, best_path_weight, memo) ==
    LET key == CacheKey(param1, param2)
        r == Invoke(func, g, param1, param2, save_to_cache, visited, tail_weight,
                    best_path_weight, memo)
    IN
    IF r.out = "inconclusive" THEN Caught(r, key, memo)
    ELSE IF r.out = "TypeError" \/ ~save_to_cache THEN r
    ELSE Store(r, key)

\* The wrapper with the bypass branch storing its result like the cached one.
memoized_bypass_stores(func, g, param1, param2, save_to_cache, visited, tail_weight, best_path_weight, memo) ==
    LET key == CacheKey(param1, param2)
        r == Invoke(func, g, param1, param2, save_to_cache, visited, tail_weight,
                    best_path_weight, memo)
    IN
    IF save_to_cache /\ key \in DOMAIN memo THEN Hit(memo, key)
    ELSE IF r.out = "inconclusive" THEN Caught(r, key, memo)
    ELSE IF r.out = "TypeError" THEN r
    ELSE Store(r, key)

\* The wrapper with the bypass branch answering from the cache when it can.
memoized_bypass_reads(func, g, param1, param2, save_to_cache, visited, tail_weight, best_path_weight, memo) ==
    LET key == CacheKey(param1, param2)
        r == Invoke(func, g, param1, param2, save_to_cache, visited, tail_weight,
                    best_path_weight, memo)
    IN
    IF key \in DOMAIN memo THEN Hit(memo, key)
    ELSE IF r.out = "inconclusive" THEN Caught(r, key, memo)
    ELSE IF r.out = "TypeError" \/ ~save_to_cache THEN r
    ELSE Store(r, key)

\* memoized_shortest_path_func(*args, save_to_cache=True, **kwargs)
memoized(func, g, param1, param2, save_to_cache, visited, tail_weight, best_path_weight, memo) ==
    LET key == CacheKey(param1, param2)
        r == Invoke(func, g, param1, param2, save_to_cache, visited, tail_weight,
                    best_path_weight, memo)
    IN
    IF ~save_to_cache
    THEN IF r.out = "inconclusive" THEN Caught(r, key, memo) ELSE r
    ELSE IF key \in DOMAIN memo THEN Hit(memo, key)
    ELSE IF r.out = "inconclusive" THEN Caught(r, key, memo)
    ELSE IF r.out = "TypeError" THEN r
    ELSE Store(r, key)

\* An argument as the caller passes it: a Node, or a Python set of nodes
\* listed in its iteration order.
NodeArg(n) == [kind |-> "Node", items |-> <<n>>]
SetArg(s) == [kind |-> "set", items |-> s]

\* A frozenset that keeps the first listed item only.
frozenset_first(items) == IF items = <<>> THEN {} ELSE {items[1]}

\* frozenset(param): the items without their order.
frozenset(items) == {items[i] : i \in 1..Len(items)}

\* frozenset(param) if isinstance(param, set) else param
KeyPart(param) == IF param.kind = "set" THEN frozenset(param.items) ELSE param.items[1]

\* param1_name, param2_name: the first two parameters of the signature.
ParamNames(func) ==
    IF func = "shortest_path_through_network" THEN <<"start", "network">>
    ELSE <<"start", "end">>

\* The two cacheable arguments of a call: args[0] and args[1] where present,
\* else (IndexError) the keywords named like the first two parameters.
KeyParams(func, args, kwargs) ==
    IF Len(args) = 0
    THEN <<kwargs[ParamNames(func)[1]], kwargs[ParamNames(func)[2]]>>
    ELSE IF Len(args) = 1 THEN <<args[1], kwargs[ParamNames(func)[2]]>>
    ELSE <<args[1], args[2]>>

\* memoized_shortest_path_func(*args, save_to_cache=True, **kwargs) as the
\* caller writes the call.  The wrapped function receives the same two
\* arguments (a set and its frozenset hold the same nodes) and the private
\* keywords, each at its default when left out.
memoized_call(func, g, args, kwargs, memo) ==
    LET params == KeyParams(func, args, kwargs)
    IN memoized(func, g, KeyPart(params[1]), KeyPart(params[2]),
                Bound(kwargs, "save_to_cache", TRUE), Bound(kwargs, "_visited", {}),
                Bound(kwargs, "_tail_weight", None),
                Bound(kwargs, "_best_path_weight", None), memo)

\* ------------------------------------------------------------- state
VARIABLES
    edges,      \* edges[n]: Node.edges of node n, a sequence of Edge
    cache,      \* cache[func]: the memo dictionary of decorated function func
    last,       \* the most recent top-level search call and what it yielded
    stale,      \* the functions whose cache was filled before the last mutation
    ncalls,     \* top-level search calls made since the caches were last cleared
    name,       \* name[n]: Node.name of node n, a string (sequence of characters)
    held        \* held[v]: the value the caller's variable v refers to

vars == <<edges, cache, last, stale, ncalls, name, held>>

Funcs == {"shortest_path", "shortest_path_through_network", "path_exists"}

NoCall == [func |-> "none", param1 |-> 0, param2 |-> 0, save_to_cache |-> TRUE,
           out |-> "return", val |-> NoneVal, calls |-> 0,
           before |-> EmptyMemo, inc |-> {}, wrote |-> {}]

\* The caller's variables: two operands and a result.
Held == {"p", "q", "r"}

\* Node(x) for x = 1..n: self.name = str(x); self.edges = []; memo = {} in each
\* memoize(); the caller holds no value yet.
Start(n) ==
    /\ edges = [x \in 1..n |-> <<>>]
    /\ name = [x \in 1..n |-> str(x)]
    /\ held = [v \in Held |-> NoneVal]
    /\ cache = [f \in Funcs |-> EmptyMemo]
    /\ last = NoCall
    /\ stale = {}
    /\ ncalls = 0

Init == Start(NumNodes)

\* The nodes that exist.
AllNodes == DOMAIN edges

\* How many connect calls the edge lists hold (each appended two edges).
RECURSIVE SumLen(_, _)
SumLen(g, S) ==
    IF S = {} THEN 0
    ELSE LET n == CHOOSE x \in S : TRUE IN Len(g[n]) + SumLen(g, S \ {n})

NumEdges == SumLen(edges, AllNodes) \div 2

Filled == {f \in Funcs : DOMAIN cache[f] # {}}

\* A connect that stores the edge on self only.
connect_one_sided(g, self, other, w) ==
    [g EXCEPT ![self] = Append(@, Edge(self, other, w))]

\* Node.connect(self, other, weight=None)
connect(g, self, other, w) ==
    LET g1 == [g EXCEPT ![self] = Append(@, Edge(self, other, w))]
    IN  [g1 EXCEPT ![other] = Append(@, Edge(other, self, w))]

Connect(self, other, w) ==
    /\ edges' = connect(edges, self, other, w)
    /\ stale' = stale \cup Filled
    /\ last' = NoCall
    /\ UNCHANGED <<cache, ncalls, name, held>>

\* list.remove(x): drop the first item equal to x (Edge.__eq__ compares
\* node1, node2 and weight).  Has(s, x) is false where remove raises ValueError.
Has(s, x) == \E i \in 1..Len(s) : s[i] = x

RemoveFirst(s, x) ==
    LET i == CHOOSE k \in 1..Len(s) : s[k] = x /\ \A j \in 1..(k - 1) : s[j] # x
    IN SubSeq(s, 1, i - 1) \o SubSeq(s, i + 1, Len(s))

\* Node.disconnect(self, other, weight=None): the two removes in order; a
\* ValueError from either leaves what was done before it.
disconnect(g, self, other, w) ==
    IF ~Has(g[self], Edge(self, other, w)) THEN g
    ELSE LET g1 == [g EXCEPT ![self] = RemoveFirst(@, Edge(self, other, w))]
         IN IF ~Has(g1[other], Edge(other, self, w)) THEN g1
            ELSE [g1 EXCEPT ![other] = RemoveFirst(@, Edge(other, self, w))]

Disconnect(self, other, w) ==
    /\ edges' = disconnect(edges, self, other, w)
    /\ stale' = stale \cup Filled
    /\ last' = NoCall
    /\ UNCHANGED <<cache, ncalls, name, held>>

\* Node.isolate(self): self.edges = []
isolate(g, self) == [g EXCEPT ![self] = <<>>]

Isolate(self) ==
    /\ edges' = isolate(edges, self)
    /\ stale' = stale \cup Filled
    /\ last' = NoCall
    /\ UNCHANGED <<cache, ncalls, name, held>>

\* A top-level call whose loop empties start.edges as it walks them.
CallDrainingEdges(func, param1, param2, save_to_cache) ==
    \E r \in {memoized(func, edges, param1, param2, save_to_cache, {}, None, None, cache[func])} :
       /\ cache' = [cache EXCEPT ![func] = r.memo]
       /\ last' = [func |-> func, param1 |-> param1, param2 |-> param2,
                   save_to_cache |-> save_to_cache,
                   out |-> r.out, val |-> r.val, calls |-> r.calls,
                   before |-> cache[func], inc |-> r.inc, wrote |-> r.wrote]
       /\ ncalls' = ncalls + 1
       /\ edges' = [edges EXCEPT ![param1] = <<>>]
       /\ stale' = stale
       /\ UNCHANGED <<name, held>>

\* A top-level call func(param1, param2, save_to_cache=...), the private
\* arguments at their defaults.
Call(func, param1, param2, save_to_cache) ==
    \E r \in {memoized(func, edges, param1, param2, save_to_cache, {}, None, None, cache[func])} :
       /\ cache' = [cache EXCEPT ![func] = r.memo]
       /\ last' = [func |-> func, param1 |-> param1, param2 |-> param2,
                   save_to_cache |-> save_to_cache,
                   out |-> r.out, val |-> r.val, calls |-> r.calls,
                   before |-> cache[func], inc |-> r.inc, wrote |-> r.wrote]
       /\ ncalls' = ncalls + 1
       /\ UNCHANGED <<edges, stale, name, held>>

\* cache_clear dropping one entry only.
CacheClearOne(func) ==
    /\ cache' = [cache EXCEPT ![func] =
                    [k \in (DOMAIN @) \ {CHOOSE x \in DOMAIN @ : TRUE} |-> @[k]]]
    /\ stale' = stale \ {func}
    /\ last' = [NoCall EXCEPT !.func = "cache_clear", !.param1 = func,
                              !.before = cache[func]]
    /\ ncalls' = ncalls
    /\ UNCHANGED <<edges, name, held>>

\* func.cache_clear(); last notes which cache was cleared and what it held.
CacheClear(func) ==
    /\ cache' = [cache EXCEPT ![func] = EmptyMemo]
    /\ stale' = stale \ {func}
    /\ last' = [NoCall EXCEPT !.func = "cache_clear", !.param1 = func,
                              !.before = cache[func]]
    /\ ncalls' = IF Filled \subseteq {func} THEN 0 ELSE ncalls
    /\ UNCHANGED <<edges, name, held>>

\* ------------------------------------------------------------- specifications
\* Build: the caller wires up the graph while every cache is empty.
Build(maxc, loops, W) ==
    \E a, b \in AllNodes, w \in W :
        /\ a <= b
        /\ loops \/ a # b
        /\ Filled = {}
        /\ NumEdges < maxc
        /\ Connect(a, b, w)

Search(func, maxcalls) ==
    \E a, b \in AllNodes : ncalls < maxcalls /\ Call(func, a, b, TRUE)

Clear == \E f \in Funcs : f \in Filled /\ CacheClear(f)

\* Spec: NumNodes nodes, weighted and unweighted edges, self-connections and
\* repeated edges; shortest_path and path_exists in cached mode; cache_clear.
Next ==
    \/ Build(MaxConnects, TRUE, OptWeights)
    \/ Search("shortest_path", MaxCalls)
    \/ Search("path_exists", MaxCalls)
    \/ Clear

Spec == Init /\ [][Next]_vars

\* SpecWeighted: NumNodes nodes joined by up to WeightedConnects edges with
\* weights 0..MaxWeight, self-connections included; shortest_path calls.
NextWeighted ==
    \/ Build(WeightedConnects, TRUE, Weights)
    \/ Search("shortest_path", MaxCalls)

SpecWeighted == Init /\ [][NextWeighted]_vars

\* SpecLoops: NumNodes nodes joined by up to LoopConnects numerically weighted
\* edges, self-connections included, then one shortest_path call.
NextLoops ==
    \/ Build(LoopConnects, TRUE, LightWeights)
    \/ Search("shortest_path", 1)

SpecLoops == Init /\ [][NextLoops]_vars

\* SpecDeep: DeepNodes nodes joined by up to DeepConnects numerically weighted
\* edges between distinct nodes, then one shortest_path call.
NextDeep ==
    \/ Build(DeepConnects, FALSE, LightWeights)
    \/ Search("shortest_path", 1)

SpecDeep == Start(DeepNodes) /\ [][NextDeep]_vars

\* SpecMutate: the graph is mutated by connect (between distinct nodes, weight
\* LightWeight), disconnect and isolate, the edge lists holding up to
\* 2 * MutateConnects edges; a cached-mode path_exists call may come first,
\* then shortest_path calls; cache_clear.  While the caches are empty the graph
\* is mutated freely; a filled cache sees one mutation before it is cleared.
Rewire(maxc, W) ==
    \E a, b \in AllNodes, w \in W :
        /\ stale = {}
        /\ \/ a < b /\ SumLen(edges, AllNodes) + 2 <= 2 * maxc /\ Connect(a, b, w)
           \/ Disconnect(a, b, w)

Cut == \E a \in AllNodes : stale = {} /\ edges[a] # <<>> /\ Isolate(a)

NextMutate ==
    \/ Rewire(MutateConnects, {LightWeight})
    \/ Cut
    \/ Search("path_exists", 1)
    \/ Search("shortest_path", MaxCalls)
    \/ Clear

SpecMutate == Init /\ [][NextMutate]_vars

\* SpecNetwork: NumNodes nodes joined by up to NetworkConnects edges with
\* weights 0..MaxWeight between distinct nodes, then cached-mode
\* shortest_path_through_network calls with a set of nodes as the network.
SearchThrough(maxcalls) ==
    \E a \in AllNodes, network \in SUBSET AllNodes :
        ncalls < maxcalls /\ Call("shortest_path_through_network", a, network, TRUE)

NextNetwork ==
    \/ Build(NetworkConnects, FALSE, Weights)
    \/ SearchThrough(MaxCalls)

SpecNetwork == Init /\ [][NextNetwork]_vars

\* SpecBypass: NumNodes nodes joined by up to BypassConnects numerically
\* weighted edges between distinct nodes; a first call of any of the three
\* functions in either mode, then bypass-mode shortest_path and path_exists
\* calls.
Bypass(func, maxcalls) ==
    \E a, b \in AllNodes : ncalls < maxcalls /\ Call(func, a, b, FALSE)

BypassThrough(maxcalls) ==
    \E a \in AllNodes, network \in SUBSET AllNodes :
        ncalls < maxcalls /\ Call("shortest_path_through_network", a, network, FALSE)

NextBypass ==
    \/ Build(BypassConnects, FALSE, LightWeights)
    \/ Search("shortest_path", 1)
    \/ Search("path_exists", 1)
    \/ SearchThrough(1)
    \/ BypassThrough(1)
    \/ Bypass("shortest_path", MaxCalls)
    \/ Bypass("path_exists", MaxCalls)

SpecBypass == Init /\ [][NextBypass]_vars

\* SpecPath: the caller holds a Path p and a second operand q (a Path, a plain
\* list of edges or None), each of up to MaxPathLen edges drawn from PathEdges,
\* and evaluates p + q, q + p, p < q and q < p; r receives a returned value.
PathEdges ==
    {Edge(1, 2, w) : w \in OptWeights} \cup {Edge(2, 3, w) : w \in LightWeights}

EdgeSeqs == UNION {[1..n -> PathEdges] : n \in 0..MaxPathLen}

StartPath ==
    /\ edges = [x \in Nodes |-> <<>>]
    /\ name = [x \in Nodes |-> str(x)]
    /\ cache = [f \in Funcs |-> EmptyMemo]
    /\ last = NoCall
    /\ stale = {}
    /\ ncalls = 0
    /\ \E s, u \in EdgeSeqs :
          \E other \in {PathVal(u), ListVal(u), NoneVal} :
             held = [v \in Held |-> IF v = "p" THEN PathVal(s)
                                    ELSE IF v = "q" THEN other ELSE NoneVal]

\* r = x <op> y for the caller's variables x and y, x holding a Path; last
\* notes the operation, its operands, how it ended and the variables before.
Operate(op, x, y, res) ==
    /\ held' = [held EXCEPT ![x] = res.self,
                            !["r"] = IF res.out = "return" THEN res.val ELSE @]
    /\ last' = [NoCall EXCEPT !.func = op, !.param1 = x, !.param2 = y,
                              !.out = res.out, !.val = res.val, !.before = held]
    /\ UNCHANGED <<edges, cache, stale, ncalls, name>>

Plus(x, y) ==
    /\ held[x].kind = "Path"
    /\ last.func = "none"
    /\ Operate("__add__", x, y, PathPlus(held[x], held[y]))

Less(x, y) ==
    /\ held[x].kind = "Path"
    /\ last.func = "none"
    /\ Operate("__lt__", x, y, PathLess(held[x], held[y]))

NextPath ==
    \/ \E x, y \in {"p", "q"} : Plus(x, y)
    \/ \E x, y \in {"p", "q"} : Less(x, y)

SpecPath == StartPath /\ [][NextPath]_vars

\* SpecWire: NumNodes nodes wired by connect and disconnect calls in any
\* order, between any two nodes (a node with itself included) and with any
\* weight of 0..LightWeight or None, the edge lists holding up to
\* 2 * WireConnects edges; a disconnect may name an edge that is not there.
NextWire ==
    \/ \E a, b \in AllNodes, w \in LightWeights \cup {None} :
          NumEdges < WireConnects /\ Connect(a, b, w)
    \/ \E a, b \in AllNodes, w \in LightWeights \cup {None} : Disconnect(a, b, w)

SpecWire == Init /\ [][NextWire]_vars

\* SpecEscape: the caller holds two strings p and q of up to MaxNameLen
\* characters drawn from Chars and evaluates escape_dot_id on either; r
\* receives the result.
Chars == {"a", " ", "\\", "\""}

Strings == UNION {[1..n -> Chars] : n \in 0..MaxNameLen}

StartEscape ==
    /\ edges = [x \in Nodes |-> <<>>]
    /\ name = [x \in Nodes |-> str(x)]
    /\ cache = [f \in Funcs |-> EmptyMemo]
    /\ last = NoCall
    /\ stale = {}
    /\ ncalls = 0
    /\ \E s, u \in Strings :
          held = [v \in Held |-> IF v = "p" THEN StrVal(s)
                                 ELSE IF v = "q" THEN StrVal(u) ELSE NoneVal]

\* r = escape_dot_id(x)
Escape(x) ==
    /\ held' = [held EXCEPT !["r"] = StrVal(escape_dot_id(held[x].path))]
    /\ last' = [NoCall EXCEPT !.func = "escape_dot_id", !.param1 = x,
                              !.val = StrVal(escape_dot_id(held[x].path)),
                              !.before = held]
    /\ UNCHANGED <<edges, cache, stale, ncalls, name>>

NextEscape == \E x \in {"p", "q"} : Escape(x)

SpecEscape == StartEscape /\ [][NextEscape]_vars

\* SpecDot: DotNodes nodes named prefix + str(x) with one prefix of
\* DotPrefixes; node 1 is connected to nodes 2, 3, ... in turn with any weight
\* of 0..MaxWeight or None; dotgraph is called with keyword arguments: a list
\* of up to MaxIsolated distinct nodes (or None, or absent), the edge list of a
\* node as connections (or absent) or as edges, and a name (or absent); one
\* call between two changes of the graph.
DotPrefixes == {<<"N">>, <<"\"">>, <<"\\", " ">>}

StartDot ==
    /\ edges = [x \in 1..DotNodes |-> <<>>]
    /\ \E prefix \in DotPrefixes : name = [x \in 1..DotNodes |-> prefix \o str(x)]
    /\ held = [v \in Held |-> NoneVal]
    /\ cache = [f \in Funcs |-> EmptyMemo]
    /\ last = NoCall
    /\ stale = {}
    /\ ncalls = 0

\* first.connect(other, w) for the next node other.
ConnectNext ==
    \E w \in OptWeights :
        /\ NumEdges + 2 <= DotNodes
        /\ Connect(1, NumEdges + 2, w)

\* An argument that the call leaves out.
Absent == [kind |-> "absent", path |-> <<>>]

NodeLists ==
    UNION {{s \in [1..n -> AllNodes] : \A i, j \in 1..n : i # j => s[i] # s[j]} :
           n \in 0..MaxIsolated}

GraphNames == {<<>>, <<"g">>, <<"\"", "g">>}

Keywords(isolated_nodes, connections, gname, es) ==
    LET all == [isolated_nodes |-> isolated_nodes, connections |-> connections,
                name |-> gname, edges |-> es]
    IN [k \in {x \in DOMAIN all : all[x] # Absent} |-> all[k]]

\* dotgraph(**kwargs); last notes the keywords and what the call yielded.
Render(kwargs) ==
    LET res == dotgraph(name, kwargs)
    IN /\ last' = [NoCall EXCEPT !.func = "dotgraph", !.param1 = kwargs,
                                 !.out = res.out, !.val = res.val]
       /\ UNCHANGED <<edges, cache, stale, ncalls, name, held>>

RenderConnections ==
    \E ns \in {Absent, NoneVal} \cup {ListVal(s) : s \in NodeLists},
       cs \in {Absent} \cup {ListVal(edges[n]) : n \in AllNodes},
       g \in {Absent} \cup {StrVal(s) : s \in GraphNames} :
          last.func = "none" /\ Render(Keywords(ns, cs, g, Absent))

RenderEdges ==
    \E ns \in {Absent, NoneVal} \cup {ListVal(s) : s \in NodeLists},
       es \in {ListVal(edges[n]) : n \in AllNodes},
       g \in {Absent} \cup {StrVal(s) : s \in GraphNames} :
          last.func = "none" /\ Render(Keywords(ns, Absent, g, es))

NextDot ==
    \/ ConnectNext
    \/ RenderConnections
    \/ RenderEdges

SpecDot == StartDot /\ [][NextDot]_vars

\* SpecKey: NumNodes nodes joined by up to KeyConnects edges of weight
\* LightWeight between distinct nodes, then up to MaxCalls cached-mode calls of
\* shortest_path_through_network and shortest_path whose two arguments are
\* passed positionally, the second by keyword, or both by keyword, the network
\* being a set of up to MaxListed nodes in any iteration order, with or
\* without private keyword arguments.
Listings ==
    UNION {{s \in [1..n -> Nodes] : \A i, j \in 1..n : i # j => s[i] # s[j]} :
           n \in 0..MaxListed}

Styles == {"positional", "second by keyword", "both by keyword"}

PrivateKeywords ==
    {<<>>, "_visited" :> {NumNodes},
     ("_tail_weight" :> 0) @@ ("_best_path_weight" :> LightWeight)}

\* The positional and the keyword arguments of a call written in a style.
Passed(func, style, v1, v2, private) ==
    LET n == ParamNames(func)
    IN CASE style = "positional" -> [args |-> <<v1, v2>>, kwargs |-> private]
         [] style = "second by keyword" ->
                [args |-> <<v1>>, kwargs |-> (n[2] :> v2) @@ private]
         [] style = "both by keyword" ->
                [args |-> <<>>, kwargs |-> (n[1] :> v1) @@ (n[2] :> v2) @@ private]

\* A top-level call func(*args, **kwargs); last notes the arguments as passed.
CallWith(func, args, kwargs) ==
    \E r \in {memoized_call(func, edges, args, kwargs, cache[func])} :
       /\ cache' = [cache EXCEPT ![func] = r.memo]
       /\ last' = [func |-> func, param1 |-> KeyParams(func, args, kwargs)[1],
                   param2 |-> KeyParams(func, args, kwargs)[2],
                   save_to_cache |-> Bound(kwargs, "save_to_cache", TRUE),
                   out |-> r.out, val |-> r.val, calls |-> r.calls,
                   before |-> cache[func], inc |-> r.inc, wrote |-> r.wrote,
                   args |-> args, kwargs |-> kwargs]
       /\ ncalls' = ncalls + 1
       /\ UNCHANGED <<edges, stale, name, held>>

SearchThroughPassed ==
    \E a \in AllNodes, s \in Listings, style \in Styles, private \in PrivateKeywords :
        LET c == Passed("shortest_path_through_network", style, NodeArg(a), SetArg(s), private)
        IN ncalls < MaxCalls /\ CallWith("shortest_path_through_network", c.args, c.kwargs)

SearchPassed ==
    \E a, b \in AllNodes, style \in Styles, private \in PrivateKeywords :
        LET c == Passed("shortest_path", style, NodeArg(a), NodeArg(b), private)
        IN ncalls < MaxCalls /\ CallWith("shortest_path", c.args, c.kwargs)

NextKey ==
    \/ Build(KeyConnects, FALSE, {LightWeight})
    \/ SearchThroughPassed
    \/ SearchPassed

SpecKey == Init /\ [][NextKey]_vars

\* A top-level call like Call whose record in last keeps the log of the
\* frames and the depth of the recursion as well.
Trace(func, param1, param2, save_to_cache) ==
    \E r \in {memoized(func, edges, param1, param2, save_to_cache, {}, None, None, cache[func])} :
       /\ cache' = [cache EXCEPT ![func] = r.memo]
       /\ last' = [func |-> func, param1 |-> param1, param2 |-> param2,
                   save_to_cache |-> save_to_cache,
                   out |-> r.out, val |-> r.val, calls |-> r.calls,
                   before |-> cache[func], inc |-> r.inc, wrote |-> r.wrote,
                   log |-> r.log, depth |-> r.depth]
       /\ ncalls' = ncalls + 1
       /\ UNCHANGED <<edges, stale, name, held>>

\* SpecTrace: NumNodes nodes joined by up to TraceConnects edges of weights
\* 0..MaxWeight, self-connections and repeated edges included, then up to
\* TraceCalls shortest_path calls in cached or bypass mode and
\* shortest_path_through_network calls in cached mode.
TraceSearch ==
    \E a, b \in AllNodes, save_to_cache \in BOOLEAN :
        ncalls < TraceCalls /\ Trace("shortest_path", a, b, save_to_cache)

TraceThrough ==
    \E a \in AllNodes, network \in SUBSET AllNodes :
        ncalls < TraceCalls /\ Trace("shortest_path_through_network", a, network, TRUE)

NextTrace ==
    \/ Build(TraceConnects, TRUE, Weights)
    \/ TraceSearch
    \/ TraceThrough

SpecTrace == Init /\ [][NextTrace]_vars

\* SpecDepth: NumNodes nodes joined by up to DepthConnects edges of weight
\* LightWeight, self-connections and repeated edges included, then up to
\* TraceCalls calls of shortest_path, path_exists or
\* shortest_path_through_network in cached or bypass mode.
TraceAny ==
    \E func \in {"shortest_path", "path_exists"}, a, b \in AllNodes, save_to_cache \in BOOLEAN :
        ncalls < TraceCalls /\ Trace(func, a, b, save_to_cache)

TraceAnyThrough ==
    \E a \in AllNodes, network \in SUBSET AllNodes, save_to_cache \in BOOLEAN :
        ncalls < TraceCalls
            /\ Trace("shortest_path_through_network", a, network, save_to_cache)

NextDepth ==
    \/ Build(DepthConnects, TRUE, {LightWeight})
    \/ TraceAny
    \/ TraceAnyThrough

SpecDepth == Init /\ [][NextDepth]_vars

\* ------------------------------------------------------------- reference notions
\* The nodes reachable from the nodes of S by following edges.
RECURSIVE Closure(_, _)
Closure(g, S) ==
    LET T == S \cup UNION {{g[n][i].node2 : i \in 1..Len(g[n])} : n \in S}
    IN IF T = S THEN S ELSE Closure(g, T)

\* A route from a to b exists.
Reachable(g, a, b) == b \in Closure(g, {a})

Numeric(g) == \A n \in DOMAIN g : \A i \in 1..Len(g[n]) : IsNum(g[n][i].weight)

Min(S) == CHOOSE x \in S : \A y \in S : x <= y

\* The least weight of a simple path from cur to end that avoids visited, an
\* unweighted edge counting 0; None when there is no such path.
RECURSIVE MinSimple(_, _, _, _)
MinSimple(g, cur, end, visited) ==
    IF cur = end THEN 0
    ELSE
    LET seen == visited \cup {cur}
        via(i) == MinSimple(g, g[cur][i].node2, end, seen)
        open == {i \in 1..Len(g[cur]) : g[cur][i].node2 \notin seen}
        cands == {(IF IsNum(g[cur][i].weight) THEN g[cur][i].weight ELSE 0) + via(i) :
                    i \in {j \in open : via(j) # None}}
    IN IF cands = {} THEN None ELSE Min(cands)

\* What a top-level cached-mode call would yield in the current state.
Now(func, a, b) == memoized(func, edges, a, b, TRUE, {}, None, None, cache[func])

SPCache == cache["shortest_path"]
PECache == cache["path_exists"]

LastIs(func) == last.func = func

\* ------------------------------------------------------------- claims

\* C1: from an empty shortest_path cache, on a graph whose edges all carry
\* non-negative numeric weights, one call shortest_path(start, end) returns a
\* path of minimum weight over all simple paths from start to end, and None
\* only when no route exists.
C1_SingleCallIsShortest ==
    (LastIs("shortest_path") /\ last.before = EmptyMemo /\ Numeric(edges)) =>
        /\ last.out = "return"
        /\ IF Reachable(edges, last.param1, last.param2)
           THEN /\ last.val.kind = "Path"
                /\ weight(last.val.path) = MinSimple(edges, last.param1, last.param2, {})
           ELSE last.val = NoneVal

\* C2: on a graph that is not mutated, every cache entry of shortest_path that
\* maps a key (s, e) to a Path holds a minimum-weight path from s to e in the
\* whole graph.
C2_CachedPathsAreShortest ==
    ("shortest_path" \notin stale) =>
        \A key \in DOMAIN SPCache :
            SPCache[key].kind = "Path" =>
                /\ ~WeightRaises(SPCache[key].path)
                /\ weight(SPCache[key].path) = MinSimple(edges, key[1], key[2], {})

\* C3: on a graph that is not mutated, after any earlier path_exists calls,
\* path_exists(a, b) returns True exactly when b is reachable from a; no entry
\* (a, b) -> False is cached while a route from a to b exists.
C3_PathExistsIsReachability ==
    ("path_exists" \notin stale) =>
        /\ \A key \in DOMAIN PECache :
               PECache[key] = BoolVal(Reachable(edges, key[1], key[2]))
        /\ LastIs("path_exists") =>
               last.val = BoolVal(Reachable(edges, last.param1, last.param2))

\* C4: on a graph not mutated since both caches were last empty, whatever
\* search calls were made in between, path_exists(a, b) returns True exactly
\* when shortest_path(a, b) returns a Path, for every pair of nodes a, b.
\* Stated for the graphs whose edges all carry a numeric weight.
C4_ExistsIffShortestPath ==
    (stale = {} /\ Numeric(edges)) =>
        \A a, b \in AllNodes :
            (Now("path_exists", a, b).val.kind = "True")
                <=> (/\ Now("shortest_path", a, b).out = "return"
                     /\ Now("shortest_path", a, b).val.kind = "Path")

\* C5: on a graph that is not mutated, no entry of shortest_path's cache maps a
\* key (s, e) to None while a route from s to e exists.
C5_NoWrongNegativeCached ==
    ("shortest_path" \notin stale) =>
        \A key \in DOMAIN SPCache :
            SPCache[key] = NoneVal => ~Reachable(edges, key[1], key[2])

\* C6: whenever a call ends with the inconclusive signal, its wrapper returns
\* None and the cache has no entry for that call's key afterwards unless one
\* was there before the call.
C6_InconclusiveLeavesNoEntry ==
    \A e \in last.inc : e.after => e.before

\* C7: if pruning skipped an edge anywhere in the subtree explored by a
\* shortest_path call and that call found no path, no None entry is written to
\* the cache for that call's key.
C7_PrunedSubtreeCachesNoNone ==
    LastIs("shortest_path") =>
        \A w \in last.wrote : w.kind = "None" => ~w.skipped

\* C8: for every node a, in every reachable cache state and whatever the graph
\* looks like, shortest_path(a, a) returns an empty Path of weight 0.
C8_SelfPathIsEmpty ==
    /\ \A a \in AllNodes :
        /\ Now("shortest_path", a, a).out = "return"
        /\ Now("shortest_path", a, a).val = PathVal(<<>>)
        /\ weight(Now("shortest_path", a, a).val.path) = 0
    /\ (LastIs("shortest_path") /\ last.param1 = last.param2) =>
        (last.out = "return" /\ last.val = PathVal(<<>>))

\* shortest_path(a, a) was called on a node that has edges, with entries
\* already in the cache.
C8_Witness ==
    /\ LastIs("shortest_path")
    /\ last.param1 = last.param2
    /\ last.before # EmptyMemo
    /\ edges[last.param1] # <<>>
    /\ last.val = PathVal(<<>>)

\* C9: if no route connects a and b, shortest_path(a, b) returns None, and
\* every repeated call returns None as long as the graph is not mutated,
\* whatever other search calls happen in between.
C9_NoRouteStaysNone ==
    ("shortest_path" \notin stale) =>
        \A a, b \in AllNodes :
            ~Reachable(edges, a, b) =>
                /\ Now("shortest_path", a, b).out = "return"
                /\ Now("shortest_path", a, b).val = NoneVal
                /\ (LastIs("shortest_path") /\ last.param1 = a /\ last.param2 = b) =>
                       (last.out = "return" /\ last.val = NoneVal)

\* shortest_path(a, b) was called a second time for a pair without a route,
\* from a node that has edges, and returned None.
C9_Witness ==
    /\ LastIs("shortest_path")
    /\ ~Reachable(edges, last.param1, last.param2)
    /\ CacheKey(last.param1, last.param2) \in DOMAIN last.before
    /\ edges[last.param1] # <<>>
    /\ ncalls = 2
    /\ last.val = NoneVal

\* C10: calling a search function twice with the same two primary arguments
\* on an unmodified graph returns the identical result both times, and the
\* second call is answered from the cache: it invokes the wrapped search zero
\* times and leaves the cache contents unchanged.
C10_RepeatIsCacheHit ==
    (last.func \in Funcs /\ last.func \notin stale) =>
        LET again == Now(last.func, last.param1, last.param2) IN
        /\ last.out = "return"
        /\ again.out = "return"
        /\ again.val = last.val
        /\ again.calls = 0
        /\ again.memo = cache[last.func]

\* p leads from s to e edge by edge, in traversal order.
IsWalk(p, s, e) ==
    IF p = <<>> THEN s = e
    ELSE /\ p[1].node1 = s
         /\ \A i \in 1..(Len(p) - 1) : p[i].node2 = p[i + 1].node1
         /\ p[Len(p)].node2 = e

\* Every edge of p is in the edge list of its node1.
Stored(g, p) == \A i \in 1..Len(p) : Has(g[p[i].node1], p[i])

ReturnedPath(func) == LastIs(func) /\ last.out = "return" /\ last.val.kind = "Path"

NodesOn(p) == IF p = <<>> THEN <<>> ELSE <<p[1].node1>> \o [i \in 1..Len(p) |-> p[i].node2]

\* p visits no node twice.
Simple(p) == \A i, j \in 1..Len(NodesOn(p)) : NodesOn(p)[i] = NodesOn(p)[j] => i = j

\* C12: no Path returned by shortest_path visits the same node twice, in every
\* reachable cache state and for every graph with non-negative weights,
\* zero-weight edges and self-connections included.
C12_NoNodeTwice ==
    (ReturnedPath("shortest_path") /\ Numeric(edges)) => Simple(last.val.path)

\* The least weight of a simple path that starts at cur, avoids seen and visits
\* every node of need other than cur; None when there is no such path.
RECURSIVE MinCover(_, _, _, _)
MinCover(g, cur, need, seen) ==
    IF need \ {cur} = {} THEN 0
    ELSE
    LET seen1 == seen \cup {cur}
        via(i) == MinCover(g, g[cur][i].node2, need \ {cur}, seen1)
        open == {i \in 1..Len(g[cur]) : g[cur][i].node2 \notin seen1}
        cands == {g[cur][i].weight + via(i) : i \in {j \in open : via(j) # None}}
    IN IF cands = {} THEN None ELSE Min(cands)

\* C13: from an empty cache, on a graph with non-negative numeric weights,
\* shortest_path_through_network(start, node_set) returns a path of minimum
\* weight among the simple paths that start at start and visit every other
\* node of node_set, and None only when there is no such path.
C13_ThroughNetworkIsShortest ==
    (LastIs("shortest_path_through_network") /\ last.before = EmptyMemo /\ Numeric(edges)) =>
        /\ last.out = "return"
        /\ IF MinCover(edges, last.param1, last.param2, {}) = None
           THEN last.val = NoneVal
           ELSE /\ last.val.kind = "Path"
                /\ weight(last.val.path) = MinCover(edges, last.param1, last.param2, {})

\* The set of nodes a path from start passes.
Visits(start, p) == {start} \cup {p[i].node2 : i \in 1..Len(p)}

\* C14: every Path returned by shortest_path_through_network(start, node_set)
\* starts at start and passes every node of node_set; when node_set minus
\* {start} is empty the result is the empty Path of weight 0.
C14_ThroughNetworkCovers ==
    LastIs("shortest_path_through_network") =>
        /\ (last.out = "return" /\ last.val.kind = "Path") =>
               /\ \/ last.val.path = <<>>
                  \/ IsWalk(last.val.path, last.param1,
                            last.val.path[Len(last.val.path)].node2)
               /\ last.param2 \subseteq Visits(last.param1, last.val.path)
        /\ (last.param2 \ {last.param1} = {}) =>
               /\ last.out = "return"
               /\ last.val = PathVal(<<>>)
               /\ weight(last.val.path) = 0

\* A second shortest_path_through_network call returned a path of two or more
\* edges through a network of at least two other nodes.
C14_Witness ==
    /\ ReturnedPath("shortest_path_through_network")
    /\ last.before # EmptyMemo
    /\ Cardinality(last.param2 \ {last.param1}) >= 2
    /\ Len(last.val.path) >= 2

\* A cached-mode call for any cached key is answered with the cached value.
CachedValueReturned ==
    \A f \in Funcs : \A key \in DOMAIN cache[f] :
        LET r == Now(f, key[1], key[2]) IN
        /\ r.out = "return"
        /\ r.val = cache[f][key]
        /\ r.calls = 0
        /\ r.memo = cache[f]

\* C15: graph mutation never changes a search cache: after connect, disconnect
\* or isolate every cache holds exactly the entries it held before, and a
\* following cached-mode search call for a cached key returns the stale cached
\* value until cache_clear is called.
C15_MutationKeepsCache ==
    /\ [](CachedValueReturned)
    /\ [][edges' # edges => cache' = cache]_vars

\* After a mutation joined the pair, shortest_path still answered None from
\* its stale cache.
C15_Witness ==
    /\ LastIs("shortest_path")
    /\ "shortest_path" \in stale
    /\ CacheKey(last.param1, last.param2) \in DOMAIN last.before
    /\ last.val = NoneVal
    /\ last.calls = 0
    /\ Reachable(edges, last.param1, last.param2)
    /\ Has(edges[last.param1], Edge(last.param1, last.param2, LightWeight))

\* The first cached-mode call for (a, b) on an empty cache searches the graph
\* as it is now: path_exists answers by the current edges; shortest_path, on
\* numeric weights, returns a Path exactly when b can now be reached, made of
\* edges now stored.
FreshResult(a, b) ==
    /\ cache["path_exists"] = EmptyMemo =>
          LET r == Now("path_exists", a, b) IN
          /\ r.calls >= 1
          /\ r.out = "return"
          /\ r.val = BoolVal(Reachable(edges, a, b))
    /\ (cache["shortest_path"] = EmptyMemo /\ Numeric(edges)) =>
          LET r == Now("shortest_path", a, b) IN
          /\ r.calls >= 1
          /\ r.out = "return"
          /\ r.val.kind = (IF Reachable(edges, a, b) THEN "Path" ELSE "None")
          /\ r.val.kind = "Path" => IsWalk(r.val.path, a, b) /\ Stored(edges, r.val.path)

\* C16: cache_clear() of a search function leaves that function's cache empty,
\* and the first call after it for any key computes its result from the graph
\* as it is at that moment, so a cache_clear after each mutation makes results
\* reflect the mutated graph.
C16_ClearThenFresh ==
    /\ [](\A a, b \in AllNodes : FreshResult(a, b))
    /\ [][\A f \in Funcs : (\E k \in DOMAIN cache[f] : k \notin DOMAIN cache'[f])
                               => cache'[f] = EmptyMemo]_vars
    /\ [](last.func = "cache_clear" => cache[last.param1] = EmptyMemo)

\* shortest_path's cache was cleared while it held None for a pair that a
\* later connect had joined directly; the next call finds the new edge.
C16_Witness ==
    /\ last.func = "cache_clear"
    /\ last.param1 = "shortest_path"
    /\ \E a, b \in AllNodes :
          /\ CacheKey(a, b) \in DOMAIN last.before
          /\ last.before[CacheKey(a, b)] = NoneVal
          /\ Has(edges[a], Edge(a, b, LightWeight))
          /\ Now("shortest_path", a, b).val = PathVal(<<Edge(a, b, LightWeight)>>)

\* C17: a search call made with save_to_cache=False leaves the cache exactly
\* as it was before the call: no entry is added, changed or removed, neither
\* for the call's own key nor for the keys of its recursive sub-calls.
C17_BypassLeavesCache ==
    [][(ncalls' = ncalls + 1 /\ ~last'.save_to_cache)
          => (cache' = cache /\ last'.wrote = {})]_vars

\* A bypass-mode call searched through sub-calls on a filled cache that has
\* no entry for its key, and returned a Path.
C17_Witness ==
    /\ last.func \in Funcs
    /\ ~last.save_to_cache
    /\ last.before # EmptyMemo
    /\ CacheKey(last.param1, last.param2) \notin DOMAIN last.before
    /\ last.calls >= 3
    /\ last.val.kind = "Path"
    /\ cache[last.func] = last.before

\* C18: an edge created by connect without a weight contributes nothing to
\* path weight: on a graph containing such edges shortest_path returns a Path
\* or None without raising, and the weight of a returned Path counts each
\* unweighted edge as 0.
C18_UnweightedCountsZero ==
    LastIs("shortest_path") =>
        /\ last.out = "return"
        /\ last.before = EmptyMemo =>
               last.val.kind = (IF Reachable(edges, last.param1, last.param2)
                                THEN "Path" ELSE "None")

\* C19: the inconclusive signal never reaches the caller of a public search
\* function: each raise is caught by the wrapper of the call that raised it,
\* in cached and in bypass mode, so a top-level call on a numerically weighted
\* graph ends only with a Path, None or a boolean.
C19_SignalNeverEscapes ==
    (last.func \in Funcs /\ Numeric(edges)) =>
        /\ last.out = "return"
        /\ last.val.kind \in (IF last.func = "path_exists" THEN {"True", "False"}
                                                            ELSE {"Path", "None"})

\* A bypass-mode call in which a wrapper below caught the signal.
C19_Witness ==
    /\ last.func \in Funcs
    /\ ~last.save_to_cache
    /\ last.inc # {}
    /\ last.out = "return"

\* C20: no search call, of any of the three functions, cached or bypass,
\* changes the graph: the edge list of every node is the same sequence before
\* and after the call.
C20_SearchLeavesGraph ==
    [][ncalls' = ncalls + 1 => edges' = edges]_vars

\* A search call that went down edges through sub-calls has returned.
C20_Witness ==
    /\ last.func \in Funcs
    /\ last.calls >= 3
    /\ edges[last.param1] # <<>>
    /\ last.out = "return"

\* Whether a simple path of weight exactly w leads from cur to end avoiding
\* seen.
RECURSIVE HasPathOfWeight(_, _, _, _, _)
HasPathOfWeight(g, cur, end, seen, w) ==
    IF cur = end THEN w = 0
    ELSE \E i \in 1..Len(g[cur]) :
            /\ g[cur][i].node2 \notin seen \cup {cur}
            /\ g[cur][i].weight <= w
            /\ HasPathOfWeight(g, g[cur][i].node2, end, seen \cup {cur},
                               w - g[cur][i].weight)

\* The simple path of weight w from cur to end that a depth-first traversal
\* in edge-list order reaches first (there is one: HasPathOfWeight).
RECURSIVE FirstPathOfWeight(_, _, _, _, _)
FirstPathOfWeight(g, cur, end, seen, w) ==
    IF cur = end THEN <<>>
    ELSE
    LET ok(i) == /\ g[cur][i].node2 \notin seen \cup {cur}
                 /\ g[cur][i].weight <= w
                 /\ HasPathOfWeight(g, g[cur][i].node2, end, seen \cup {cur},
                                    w - g[cur][i].weight)
        i == CHOOSE k \in 1..Len(g[cur]) : ok(k) /\ \A j \in 1..(k - 1) : ~ok(j)
    IN <<g[cur][i]>> \o FirstPathOfWeight(g, g[cur][i].node2, end, seen \cup {cur},
                                          w - g[cur][i].weight)

\* C21: when several paths from start to end share the minimum weight,
\* shortest_path returns the one the depth-first traversal reaches first in
\* edge-insertion order: whenever it returns a simple path of minimum weight
\* on a numerically weighted graph, that path is the first such path.
C21_FirstOfEqualKept ==
    (/\ ReturnedPath("shortest_path")
     /\ Numeric(edges)
     /\ "shortest_path" \notin stale
     /\ Simple(last.val.path)
     /\ weight(last.val.path) = MinSimple(edges, last.param1, last.param2, {}))
        => last.val.path = FirstPathOfWeight(edges, last.param1, last.param2, {},
                                             weight(last.val.path))

\* The last operation was x <op> y and returned.
Operated(op) == last.func = op /\ last.out = "return"

\* C22: p + q returns a new Path holding p's edges followed by q's edges,
\* leaves p and q as they were, and weighs weight(p) + weight(q) when the
\* weights are numbers; the empty Path weighs 0 and adding it on either side
\* gives a path equal to the other operand.
C22_ConcatenationAlgebra ==
    Operated("__add__") =>
        LET p == last.before[last.param1].path
            q == last.before[last.param2].path
        IN /\ held.r = PathVal(p \o q)
           /\ held.p = last.before.p
           /\ held.q = last.before.q
           /\ (~WeightRaises(p) /\ ~WeightRaises(q))
                 => weight(held.r.path) = weight(p) + weight(q)
           /\ weight(<<>>) = 0
           /\ (q = <<>>) => held.r.path = p
           /\ (p = <<>>) => held.r.path = q

\* p + q was evaluated for two different non-empty operands.
C22_Witness ==
    /\ Operated("__add__")
    /\ last.param1 # last.param2
    /\ Len(held.p.path) = 2
    /\ Len(held.q.path) = 1
    /\ held.p.path[1] # held.q.path[1]
    /\ Len(held.r.path) = 3
    /\ weight(held.r.path) = 3

\* C23: p < q between two Paths holds exactly when weight(p) < weight(q),
\* whatever their edges; comparing a Path with a value that is not a Path is a
\* type error, never a result.
C23_OrderByWeightOnly ==
    (last.func = "__lt__") =>
        LET p == last.before[last.param1]
            q == last.before[last.param2]
        IN /\ (q.kind = "Path" /\ ~WeightRaises(p.path) /\ ~WeightRaises(q.path))
                 => /\ last.out = "return"
                    /\ last.val = BoolVal(weight(p.path) < weight(q.path))
           /\ (q.kind # "Path") => last.out = "TypeError"

\* How many items of s equal x.
Count(s, x) == Cardinality({i \in 1..Len(s) : s[i] = x})

\* Every edge (x, y, w) stored on x has its mirror (y, x, w) stored on y, as
\* many times over.
Mirrored(g) ==
    \A x \in DOMAIN g : \A i \in 1..Len(g[x]) :
        LET e == g[x][i]
        IN Count(g[e.node2], Edge(e.node2, x, e.weight)) = Count(g[x], e)

\* C24: a.connect(b, w) appends (a, b, w) at the end of a's edge list and
\* (b, a, w) at the end of b's edge list and changes nothing else; under any
\* sequence of connect and disconnect calls every stored edge has its mirror.
C24_ConnectAppendsMirroredPair ==
    /\ []Mirrored(edges)
    /\ [][NumEdges' > NumEdges =>
            \E a, b \in AllNodes, w \in OptWeights :
               /\ \A n \in AllNodes \ {a, b} : edges'[n] = edges[n]
               /\ IF a = b
                  THEN edges'[a] = edges[a] \o <<Edge(a, a, w), Edge(a, a, w)>>
                  ELSE /\ edges'[a] = Append(edges[a], Edge(a, b, w))
                       /\ edges'[b] = Append(edges[b], Edge(b, a, w))
               /\ cache' = cache]_vars

\* Connect calls left two nodes holding two mirrored pairs of different
\* weights.
C24_Witness ==
    /\ Len(edges[1]) = 2
    /\ Len(edges[2]) = 2
    /\ edges[1][1].node2 = 2
    /\ edges[1][2].node2 = 2
    /\ edges[1][1].weight # edges[1][2].weight
    /\ edges[1][1].weight = LightWeight
    /\ Mirrored(edges)

\* C25: after a.isolate() on a graph of mirrored edges, a has no edges, no
\* other node holds an edge whose far endpoint is a, and path_exists(b, a)
\* computed on an empty cache is False for every other node b.
C25_IsolateDisconnects ==
    [][\A a \in AllNodes :
          (Mirrored(edges) /\ edges[a] # <<>> /\ edges' = isolate(edges, a)) =>
              /\ edges'[a] = <<>>
              /\ \A b \in AllNodes \ {a} :
                    /\ \A i \in 1..Len(edges'[b]) : edges'[b][i].node2 # a
                    /\ memoized("path_exists", edges', b, a, TRUE, {}, None, None,
                                EmptyMemo).val = BoolVal(FALSE)]_vars

\* How many of the first i characters of s are a backslash or a double quote.
SpecialsUpTo(s, i) == Cardinality({j \in 1..i : s[j] \in {"\\", "\""}})

\* C29: escape_dot_id wraps its input in one pair of double quotes and puts a
\* backslash before every backslash and every double quote of the input,
\* leaving every other character (spaces, the empty string) as it is; two
\* different inputs never give the same escaped identifier.
C29_EscapeQuotesAndIsInjective ==
    (last.func = "escape_dot_id") =>
        LET s == held[last.param1].path
            out == held.r.path
            n == Len(s)
        IN /\ Len(out) = n + SpecialsUpTo(s, n) + 2
           /\ out[1] = "\""
           /\ out[Len(out)] = "\""
           /\ \A i \in 1..n :
                 /\ out[1 + i + SpecialsUpTo(s, i)] = s[i]
                 /\ (s[i] \in {"\\", "\""}) => out[i + SpecialsUpTo(s, i)] = "\\"
           /\ \A v \in {"p", "q"} :
                 (held[v].path # s) => escape_dot_id(held[v].path) # out

\* escape_dot_id was applied to a string holding a backslash, a double quote
\* and a space while the other string differs from it.
C29_Witness ==
    /\ last.func = "escape_dot_id"
    /\ last.param1 = "p"
    /\ held.p.path = <<"\\", "\"", " ">>
    /\ held.q.path = <<"\"">>
    /\ held.r.path = <<"\"", "\\", "\\", "\\", "\"", " ", "\"">>

\* Each string of list on a tab-indented line of its own.
RECURSIVE TabLines(_)
TabLines(list) ==
    IF list = <<>> THEN <<>>
    ELSE <<"\n", "\t">> \o Head(list) \o TabLines(Tail(list))

\* The arguments the last dotgraph call received, defaults filled in.
GivenNodes ==
    IF "isolated_nodes" \in DOMAIN last.param1 /\ last.param1["isolated_nodes"].kind = "list"
    THEN last.param1["isolated_nodes"].path ELSE <<>>

GivenEdges ==
    IF "connections" \in DOMAIN last.param1 THEN last.param1["connections"].path ELSE <<>>

GivenName == IF "name" \in DOMAIN last.param1 THEN last.param1["name"].path ELSE <<>>

\* The text of the layout: 'graph ', the quoted name and a space when there is
\* a name, '{', one tab-indented line per node, one per edge, and '}' on a
\* line of its own.
Layout ==
    <<"g", "r", "a", "p", "h", " ">>
    \o (IF GivenName # <<>> THEN escape_dot_id(GivenName) \o <<" ">> ELSE <<>>)
    \o <<"{">>
    \o TabLines([i \in 1..Len(GivenNodes) |-> escape_dot_id(name[GivenNodes[i]])])
    \o TabLines([i \in 1..Len(GivenEdges) |-> EdgeDot(name, GivenEdges[i])])
    \o <<"\n", "}">>

Rendered == last.func = "dotgraph" /\ last.out = "return"

\* C26: dotgraph renders 'graph ', the quoted-escaped name and a space when a
\* name is given, '{', each isolated node as its quoted-escaped name on its own
\* tab-indented line in the given order, each edge on its own tab-indented
\* line in the given order, and a closing '}' on its own line.
C26_Layout == Rendered => last.val = StrVal(Layout)

\* C26 (amended): the layout holds whenever at least one isolated node or one
\* edge is given; with neither, the body between the braces is one
\* tab-indented empty line.
C26_LayoutWhenNotEmpty ==
    Rendered =>
        IF GivenNodes # <<>> \/ GivenEdges # <<>>
        THEN last.val = StrVal(Layout)
        ELSE last.val = StrVal(<<"g", "r", "a", "p", "h", " ">>
                               \o (IF GivenName # <<>>
                                   THEN escape_dot_id(GivenName) \o <<" ">> ELSE <<>>)
                               \o <<"{", "\n", "\t", "\n", "}">>)

\* dotgraph rendered two isolated nodes, two edges and a name.
C26_Witness ==
    /\ Rendered
    /\ Len(GivenNodes) = 2
    /\ Len(GivenEdges) = 2
    /\ GivenName = <<"\"", "g">>
    /\ last.val = StrVal(Layout)

\* The line of an edge without its label, and the label of weight w.
Unlabeled(e) ==
    escape_dot_id(name[e.node1]) \o <<" ", "-", "-", " ">> \o escape_dot_id(name[e.node2])

Label(w) == <<" ", "[", "l", "a", "b", "e", "l", "=">> \o str(w) \o <<"]">>

\* The text rendered for the given nodes and edges when the lines of the
\* edges are lines.
LayoutOf(lines) ==
    <<"g", "r", "a", "p", "h", " ">>
    \o (IF GivenName # <<>> THEN escape_dot_id(GivenName) \o <<" ">> ELSE <<>>)
    \o <<"{">>
    \o TabLines([i \in 1..Len(GivenNodes) |-> escape_dot_id(name[GivenNodes[i]])])
    \o TabLines(lines)
    \o <<"\n", "}">>

\* C27: an edge connected with an explicit numeric weight is rendered with
\* its label, for every such weight, 0 included: the edges of N1 connected
\* with weights 0, 1 and 2 render with [label=0], [label=1] and [label=2].
C27_EveryNumericWeightLabelled ==
    (Rendered /\ GivenEdges # <<>>) =>
        LET line(e) == IF IsNum(e.weight) THEN Unlabeled(e) \o Label(e.weight)
                       ELSE Unlabeled(e)
        IN last.val = StrVal(LayoutOf([i \in 1..Len(GivenEdges) |-> line(GivenEdges[i])]))

Passing == last.func \in Funcs /\ "args" \in DOMAIN last

\* The nodes of a listing, whatever their order.
NodesOf(items) == {n \in Nodes : \E i \in 1..Len(items) : items[i] = n}

\* The key the claim gives the last call: its first argument and its second,
\* a set standing for the nodes it holds.
ClaimedKey ==
    <<last.param1.items[1],
      IF last.param2.kind = "set" THEN NodesOf(last.param2.items)
      ELSE last.param2.items[1]>>

\* C30: the cache key is built from the first two arguments only, however
\* they are passed, a set standing for the nodes it holds whatever their
\* order: a call whose key is in the cache is answered from that entry
\* without a search, a call that searched and stored did so under that key,
\* and no key holds anything but a node and a node or a set of nodes, whatever
\* private arguments were passed.
C30_KeyFromFirstTwoArguments ==
    Passing =>
        /\ (ClaimedKey \in DOMAIN last.before) =>
                /\ last.calls = 0
                /\ last.val = last.before[ClaimedKey]
                /\ cache[last.func] = last.before
        /\ (ClaimedKey \notin DOMAIN last.before /\ last.out = "return") =>
                /\ last.calls >= 1
                /\ \/ \E e \in last.inc : e.key = ClaimedKey
                   \/ /\ ClaimedKey \in DOMAIN cache[last.func]
                      /\ cache[last.func][ClaimedKey] = last.val
        /\ \A k \in DOMAIN cache[last.func] :
                /\ Len(k) = 2
                /\ k[1] \in Nodes
                /\ IF last.func = "shortest_path_through_network"
                   THEN k[2] \in SUBSET Nodes ELSE k[2] \in Nodes

\* shortest_path_through_network was called with both arguments by keyword,
\* private arguments and a two-node set listed from the higher node down, and
\* was answered without a search from the entry an earlier call stored.
C30_Witness ==
    /\ Passing
    /\ last.func = "shortest_path_through_network"
    /\ last.args = <<>>
    /\ "_visited" \in DOMAIN last.kwargs
    /\ Len(last.param2.items) = 2
    /\ last.param2.items[1] > last.param2.items[2]
    /\ ClaimedKey \in DOMAIN last.before
    /\ last.before[ClaimedKey].kind = "Path"
    /\ Len(last.before[ClaimedKey].path) = 2
    /\ last.calls = 0
    /\ last.val = last.before[ClaimedKey]

\* A call that went through Trace, whose result carries the record of what its
\* frames did.
Traced == last.func \in Funcs /\ "log" \in DOMAIN last

\* C31: within one frame of the search the best-known weight never increases:
\* whenever a frame that already holds a best path takes the path obtained for a
\* later edge, by recursion or from the cache, as its best path, the weight of
\* the new path is strictly smaller than the weight of the path it held.
C31_BestOnlyReplacedBySmaller ==
    Traced => \A e \in last.log.adopted : e.had => e.new < e.best

\* C32: in a frame of the search an edge whose far node is not visited is
\* skipped exactly when a best-known weight exists and the edge weight plus the
\* running tail weight is greater than or equal to it (the tail weight is a
\* number whenever the best-known weight is); a frame that ends without a path
\* signals inconclusive if it skipped at least one edge and returns a
\* definitive None if it skipped none.
C32_PruneExactlyWhenNotBelowBest ==
    Traced =>
        /\ \A e \in last.log.tried :
                /\ IsNum(e.best) => IsNum(e.tail)
                /\ e.skipped <=> (IsNum(e.best) /\ e.weight + e.tail >= e.best)
        /\ \A e \in last.log.ended :
                ~e.found =>
                    /\ e.skipped => e.out = "inconclusive"
                    /\ ~e.skipped => (e.out = "return" /\ e.kind = "None")

\* One call in which an edge that would only equal the best weight was skipped,
\* an edge below the best weight was explored, one frame ended inconclusive
\* after skipping and another ended with a definitive None.
C32_Witness ==
    /\ Traced
    /\ \E e \in last.log.tried : e.skipped /\ e.weight + e.tail = e.best
    /\ \E e \in last.log.tried : ~e.skipped /\ IsNum(e.best) /\ e.weight + e.tail < e.best
    /\ \E e \in last.log.ended : ~e.found /\ e.skipped /\ e.out = "inconclusive"
    /\ \E e \in last.log.ended : ~e.found /\ ~e.skipped /\ e.kind = "None"

\* The weight of a returned value: of the path, None for no path.
WeightOf(val) == IF val.kind = "Path" THEN weight(val.path) ELSE None

\* C33: a shortest_path call in bypass mode (save_to_cache=False) ignores the
\* cache on read, in the top-level call and in every sub-call: it enters the
\* function body and yields what the same call yields on an empty cache; on a
\* graph with non-negative weights that is a path of minimum weight from start
\* to end, None exactly when no route exists, whatever the cache contains; so
\* its weight differs from that of the cached-mode call on the same cache only
\* when the cached-mode result is not of minimum weight.
C33_BypassIsOptimalWhateverTheCache ==
    [][(ncalls' = ncalls + 1 /\ last'.func = "shortest_path" /\ ~last'.save_to_cache) =>
        LET a == last'.param1
            b == last'.param2
            fresh == memoized("shortest_path", edges, a, b, FALSE, {}, None, None, EmptyMemo)
            cached == memoized("shortest_path", edges, a, b, TRUE, {}, None, None, SPCache)
            least == MinSimple(edges, a, b, {})
        IN /\ last'.out = "return"
           /\ last'.calls >= 1
           /\ last'.val = fresh.val
           /\ last'.calls = fresh.calls
           /\ Reachable(edges, a, b) <=> last'.val.kind = "Path"
           /\ ~Reachable(edges, a, b) <=> last'.val = NoneVal
           /\ WeightOf(last'.val) = least
           /\ WeightOf(cached.val) # WeightOf(last'.val) => WeightOf(cached.val) # least]_vars

\* A bypass-mode shortest_path call searched although the cache held a path
\* for its key, and returned a lighter path than the cached one.
C33_Witness ==
    /\ LastIs("shortest_path")
    /\ ~last.save_to_cache
    /\ CacheKey(last.param1, last.param2) \in DOMAIN last.before
    /\ last.before[CacheKey(last.param1, last.param2)].kind = "Path"
    /\ last.val.kind = "Path"
    /\ weight(last.val.path) < weight(last.before[CacheKey(last.param1, last.param2)].path)
    /\ last.calls >= 3

C35_DisconnectRemovesPairOrNothing ==
    [][\A a, b \in AllNodes :
          LET w == LightWeight
              ab == Edge(a, b, w)
              ba == Edge(b, a, w)
          IN /\ (a # b /\ edges' = disconnect(edges, a, b, w)) =>
                   IF Has(edges[a], ab) /\ Has(edges[b], ba)
                   THEN /\ edges'[a] = RemoveFirst(edges[a], ab)
                        /\ edges'[b] = RemoveFirst(edges[b], ba)
                        /\ \A n \in AllNodes \ {a, b} : edges'[n] = edges[n]
                   ELSE edges' = edges
             /\ (a # b /\ edges' = connect(edges, a, b, w)) =>
                   disconnect(edges', a, b, w) = edges]_vars

\* C36: every call of shortest_path, shortest_path_through_network and
\* path_exists comes to an end (it returns or raises) on every graph, cycles,
\* self-connections and repeated edges included, and the calls of the function
\* never nest deeper than the number of nodes plus one.
C36_TerminatesWithinNodesPlusOne ==
    Traced =>
        /\ last.out \in {"return", "TypeError"}
        /\ last.depth <= Cardinality(AllNodes) + 1

====
